---- MODULE Spec2Model ----
(***************************************************************************)
(* Model of the douyinVd proxy handlers.  The repository holds three       *)
(* variants of `handler`:                                                  *)
(*   "serve"    src/serve.ts          streaming proxy built on getVideoUrl *)
(*   "part_000" src/unnamed/part_000  plain URL pass-through               *)
(*   "part_001" src/unnamed/part_001  type-aware proxy built on            *)
(*                                    getVideoInfo                         *)
(* One request is one run of a handler.  A run suspends at its awaits      *)
(* (the Resolver call and the upstream fetch); each action below runs the  *)
(* handler from one suspension point to the next, or to its return.        *)
(***************************************************************************)
EXTENDS Naturals, Integers, Sequences, FiniteSets, TLC

\* req: the state of the run of the handler for each request.
\* heap: the contents of each Headers object that a run keeps across its
\* awaits (the `corsHeaders` of the run), by the identity of the object.
VARIABLES req, heap

vars == <<req, heap>>

(***************************************************************************)
(* Values                                                                  *)
(***************************************************************************)

\* The value JavaScript's `null` takes where a string is expected
\* (URLSearchParams.get and Headers.get of a missing name).
JsNull == "<null>"

\* A string is falsy in JavaScript when it is null or empty.
Falsy(v) == v = JsNull \/ v = ""

Variants == {"serve", "part_000", "part_001"}

\* Request.method is upper-cased by the Request constructor.
Methods == {"GET", "POST", "OPTIONS"}

ShareUrl == "https://v.douyin.com/abc/"

\* url.searchParams.get("url"): JsNull when the parameter is absent.
UrlParams == {JsNull, "", ShareUrl}

\* The raw value of the `data` query parameter; JsNull when absent.
DataParams == {JsNull, "", "0", "false", "1"}

\* The caller's Range header; JsNull when the caller sent none.
CallerRanges == {JsNull, "bytes=100-199", "bytes=0-"}

\* Another caller header (a Cookie); JsNull when the caller sent none.
CallerCookies == {JsNull, "sid=1"}

(***************************************************************************)
(* Headers objects: a function from lower-cased names to values            *)
(***************************************************************************)

NoHeaders == [n \in {} |-> ""]

\* Headers normalises names to lower case.
LowerName(n) ==
  CASE n = "Access-Control-Allow-Origin"   -> "access-control-allow-origin"
    [] n = "Access-Control-Allow-Methods"  -> "access-control-allow-methods"
    [] n = "Access-Control-Allow-Headers"  -> "access-control-allow-headers"
    [] n = "Access-Control-Expose-Headers" -> "access-control-expose-headers"
    [] n = "Content-Type"                  -> "content-type"
    [] n = "Content-Length"                -> "content-length"
    [] n = "Content-Range"                 -> "content-range"
    [] n = "Accept-Ranges"                 -> "accept-ranges"
    [] n = "Range"                         -> "range"
    [] n = "Referer"                       -> "referer"
    [] n = "User-Agent"                    -> "user-agent"
    [] n = "Cookie"                        -> "cookie"
    [] n = "ETag"                          -> "etag"
    [] OTHER                               -> n

HeadersSet(h, name, val) ==
  LET k == LowerName(name)
  IN  [n \in (DOMAIN h) \cup {k} |-> IF n = k THEN val ELSE h[n]]

HeadersHas(h, name) == LowerName(name) \in DOMAIN h

HeadersGet(h, name) ==
  IF HeadersHas(h, name) THEN h[LowerName(name)] ELSE JsNull

\* The headers of the inbound Request.
RequestHeaders(range, cookie) ==
  LET h1 == IF range = JsNull THEN NoHeaders
            ELSE HeadersSet(NoHeaders, "Range", range)
  IN  IF cookie = JsNull THEN h1 ELSE HeadersSet(h1, "Cookie", cookie)

(***************************************************************************)
(* Response objects                                                        *)
(***************************************************************************)

\* A body is a sequence of strings: <<>> is the null body, <<"text", ...>>
\* a string body and <<"stream", id>> the ReadableStream of upstream `id`.
NullBody == <<>>

TextBody(pieces) == <<"text">> \o pieces

IsStream(body) == body # NullBody /\ body[1] = "stream"

IsText(body) == body # NullBody /\ body[1] = "text"

\* Statuses for which the Response constructor rejects a non-null body.
NullBodyStatus(status) == status \in {101, 204, 205, 304}

\* new Response(body, {status, headers}) throws instead of returning.
ResponseThrows(body, status) ==
  \/ status < 200
  \/ status > 599
  \/ (body # NullBody /\ NullBodyStatus(status))

\* new Response(body, {status, headers}): the headers are copied, and a
\* string body with no Content-Type given gets the default one.
Response(body, status, headers) ==
  [ status  |-> status,
    headers |-> IF IsText(body) /\ ~HeadersHas(headers, "Content-Type")
                THEN HeadersSet(headers, "Content-Type", "text/plain;charset=UTF-8")
                ELSE headers,
    body    |-> body ]

NoResponse == [status |-> 0, headers |-> NoHeaders, body |-> NullBody]

(***************************************************************************)
(* createCorsHeaders, one per variant                                      *)
(***************************************************************************)

createCorsHeadersServe ==
  HeadersSet(
    HeadersSet(
      HeadersSet(
        HeadersSet(NoHeaders, "Access-Control-Allow-Origin", "*"),
        "Access-Control-Allow-Methods", "GET, OPTIONS"),
      "Access-Control-Allow-Headers", "Content-Type, Range"),
    "Access-Control-Expose-Headers", "Content-Length, Content-Range")

createCorsHeadersPart000 ==
  HeadersSet(
    HeadersSet(
      HeadersSet(NoHeaders, "Access-Control-Allow-Origin", "*"),
      "Access-Control-Allow-Methods", "GET, OPTIONS"),
    "Access-Control-Allow-Headers", "Content-Type")

createCorsHeadersPart001 ==
  HeadersSet(
    HeadersSet(
      HeadersSet(
        HeadersSet(NoHeaders, "Access-Control-Allow-Origin", "*"),
        "Access-Control-Allow-Methods", "GET, OPTIONS"),
      "Access-Control-Allow-Headers", "Content-Type, Range"),
    "Access-Control-Expose-Headers", "Content-Length, Content-Range")

createCorsHeaders(variant) ==
  CASE variant = "serve"    -> createCorsHeadersServe
    [] variant = "part_000" -> createCorsHeadersPart000
    [] variant = "part_001" -> createCorsHeadersPart001

(***************************************************************************)
(* The Resolver (douyin.ts, an external collaborator)                      *)
(***************************************************************************)

MediaUrl == "https://media.example/play?video_id=1"

\* What the Resolver may produce for a share URL: a failure with a cause,
\* or a record.  `ser` tells whether JSON.stringify accepts the record.
ResolverFailures ==
  { [ok |-> FALSE, cause |-> c, type |-> "", video_url |-> "", ser |-> TRUE]
      : c \in {"unparsable share url", "api rejected", "post gone"} }

ResolverRecords ==
  { [ok |-> TRUE, cause |-> "", type |-> t, video_url |-> u, ser |-> b]
      : t \in {"video", "img", "other"}, u \in {"", MediaUrl}, b \in BOOLEAN }

ResolverOutcomes == ResolverFailures \cup ResolverRecords

NoOutcome == [ok |-> FALSE, cause |-> "not called", type |-> "", video_url |-> "", ser |-> TRUE]

\* JSON.stringify of a record the Resolver returned.
JSONStringify(rec) ==
  <<"{\"type\":", rec.type, ",\"video_url\":", rec.video_url, "}">>

(***************************************************************************)
(* The upstream media server                                               *)
(***************************************************************************)

UpstreamStatuses == {200, 203, 204, 206, 404, 500}

StatusText(status) ==
  CASE status = 200 -> "OK"
    [] status = 203 -> "Non-Authoritative Information"
    [] status = 204 -> "No Content"
    [] status = 206 -> "Partial Content"
    [] status = 404 -> "Not Found"
    [] status = 500 -> "Internal Server Error"
    [] OTHER        -> ""

\* A header of the upstream response; JsNull when the upstream sent none.
UpstreamContentTypes == {JsNull, "", "video/webm"}

UpstreamContentLengths == {JsNull, "100"}

UpstreamContentRanges == {JsNull, "bytes 100-199/5000"}

\* A header of the upstream response that the handlers do not read.
UpstreamETags == {JsNull, "v1"}

UpstreamHeaders(ct, cl, cr, et) ==
  LET h1 == IF ct = JsNull THEN NoHeaders ELSE HeadersSet(NoHeaders, "Content-Type", ct)
      h2 == IF cl = JsNull THEN h1 ELSE HeadersSet(h1, "Content-Length", cl)
      h3 == IF cr = JsNull THEN h2 ELSE HeadersSet(h2, "Content-Range", cr)
  IN  IF et = JsNull THEN h3 ELSE HeadersSet(h3, "ETag", et)

UpstreamBody == <<"stream", "upstream bytes">>

\* What `await fetch(...)` may produce: a rejection (network error), or a
\* response.  fetch gives a null body for a null-body status.
UpstreamResponses ==
  { [failed |-> TRUE, status |-> 0, statusText |-> "", headers |-> NoHeaders,
     body |-> NullBody] }
  \cup
  { [failed |-> FALSE, status |-> x[1], statusText |-> StatusText(x[1]),
     headers |-> UpstreamHeaders(x[2], x[3], x[4], x[6]), body |-> x[5]]
      : x \in { y \in UpstreamStatuses \X UpstreamContentTypes
                       \X UpstreamContentLengths \X UpstreamContentRanges
                       \X {NullBody, UpstreamBody} \X UpstreamETags
                  : NullBodyStatus(y[1]) => y[5] = NullBody } }

NoUpstreamResponse ==
  [failed |-> FALSE, status |-> 0, statusText |-> "", headers |-> NoHeaders,
   body |-> NullBody]

NoUpstreamRequest == [url |-> "", headers |-> NoHeaders]

(***************************************************************************)
(* The state of one request                                                *)
(***************************************************************************)

Reqs == {"r1", "r2"}

\* The request of the specification of one request on its own.
MainReqs == {"r1"}

\* Mutant: `corsHeaders` is one object of the module, shared by all runs.
CorsObjectShared(r) == CHOOSE o \in Reqs : TRUE

\* const corsHeaders = createCorsHeaders(): the identity of the Headers
\* object of the run for request r; each run creates its own.
CorsObjectOf(r) == r

\* How many chunks an upstream body has at most.
MaxChunks == 2

\* How many chunks the body stream holds at most before it stops pulling
\* from its source.
HighWaterMark == 1

\* pc: "idle" (not yet received), "awaitResolver", "awaitFetch", "done"
\* (the handler returned its response), "fault" (the handler threw).
\* stream: "none", or the state of a relayed body: "open", "completed",
\* "cancelled".  upOpen: the upstream connection is open.  upRead and
\* delivered count the chunks read from the upstream and handed to the
\* caller.  detached: the upstream is read by something other than the
\* consumer of the response body.
IdleRequest ==
  [ pc            |-> "idle",
    variant       |-> "serve",
    method        |-> "GET",
    url           |-> JsNull,
    data          |-> JsNull,
    headers       |-> NoHeaders,
    corsHeaders   |-> NoHeaders,
    resolverFn    |-> "none",
    resolverCalls |-> 0,
    resolved      |-> NoOutcome,
    fetchCalls    |-> 0,
    upReq         |-> NoUpstreamRequest,
    upResp        |-> NoUpstreamResponse,
    resp          |-> NoResponse,
    responses     |-> 0,
    log           |-> <<>>,
    stream        |-> "none",
    upOpen        |-> FALSE,
    upEnded       |-> FALSE,
    upRead        |-> 0,
    delivered     |-> 0,
    detached      |-> FALSE,
    callerGone    |-> FALSE,
    readAtCancel  |-> 0 ]

NewRequest(variant, method, url, data, range, cookie) ==
  [ IdleRequest EXCEPT !.variant = variant, !.method = method, !.url = url,
                       !.data = data, !.headers = RequestHeaders(range, cookie) ]

\* `return new Response(...)`: the run ends with this response.
Respond(s, resp) ==
  [ s EXCEPT !.pc = "done", !.resp = resp, !.responses = @ + 1,
             !.log = Append(@, "respond") ]

\* An error leaves the handler: its promise rejects and no response is made.
Fault(s) == [ s EXCEPT !.pc = "fault", !.log = Append(@, "fault") ]

\* `await getVideoInfo(inputUrl)` / `await getVideoUrl(inputUrl)`.
CallResolver(s, fn) ==
  [ s EXCEPT !.pc = "awaitResolver", !.resolverFn = fn,
             !.resolverCalls = @ + 1, !.log = Append(@, "resolve") ]

\* `await fetch(url, { headers })`.
CallFetch(s, url, headers) ==
  [ s EXCEPT !.pc = "awaitFetch", !.fetchCalls = @ + 1,
             !.upReq = [url |-> url, headers |-> headers],
             !.log = Append(@, "fetch") ]

(***************************************************************************)
(* Pieces of the handlers shared by the variants                           *)
(***************************************************************************)

\* Mutant: the method compared in the wrong case.
IsPreflightLowerCase(method) == method = "options"

\* req.method === 'OPTIONS'
IsPreflight(method) == method = "OPTIONS"

\* Mutant: only the empty string is taken as missing, null is not.
MissingUrlOnlyEmpty(inputUrl) == inputUrl = ""

\* !inputUrl
MissingUrl(inputUrl) == Falsy(inputUrl)

\* Mutant: the value of `data` is tested instead of its presence.
HasDataByValue(data) == ~Falsy(data)

\* url.searchParams.has("data")
HasData(data) == data # JsNull

\* Mutant: the upstream request starts from a copy of the caller's headers.
videoRequestHeadersFromCaller(reqHeaders) ==
  LET h == HeadersSet(
             HeadersSet(reqHeaders, "Referer", "https://www.douyin.com/"),
             "User-Agent",
             "Mozilla/5.0 (Windows NT 10.0; Win64; x64) AppleWebKit/537.36 (KHTML, like Gecko) Chrome/107.0.0.0 Safari/537.36")
  IN  IF HeadersHas(reqHeaders, "range")
      THEN HeadersSet(h, "Range", HeadersGet(reqHeaders, "range"))
      ELSE h

\* Mutant: the caller's Range is not forwarded.
videoRequestHeadersNoRange(reqHeaders) ==
  HeadersSet(
    HeadersSet(NoHeaders, "Referer", "https://www.douyin.com/"),
    "User-Agent",
    "Mozilla/5.0 (Windows NT 10.0; Win64; x64) AppleWebKit/537.36 (KHTML, like Gecko) Chrome/107.0.0.0 Safari/537.36")

\* The headers of the upstream media request.
videoRequestHeaders(reqHeaders) ==
  LET h == HeadersSet(
             HeadersSet(NoHeaders, "Referer", "https://www.douyin.com/"),
             "User-Agent",
             "Mozilla/5.0 (Windows NT 10.0; Win64; x64) AppleWebKit/537.36 (KHTML, like Gecko) Chrome/107.0.0.0 Safari/537.36")
  IN  IF HeadersHas(reqHeaders, "range")
      THEN HeadersSet(h, "Range", HeadersGet(reqHeaders, "range"))
      ELSE h

\* Mutant: no upper limit on a successful status.
ResponseOkNoUpperLimit(status) == status >= 200

\* Response.ok: the status is in 200..299.
ResponseOk(status) == status >= 200 /\ status <= 299

\* !videoResponse.ok || !videoResponse.body
UpstreamRejected(up) == ~ResponseOk(up.status) \/ up.body = NullBody

\* Mutant: the relay starts from a copy of all the upstream's headers.
relayHeadersCopiesAll(cors, up) ==
  LET ct   == HeadersGet(up.headers, "Content-Type")
      cl   == HeadersGet(up.headers, "Content-Length")
      base == [n \in (DOMAIN cors) \cup (DOMAIN up.headers) |->
                 IF n \in DOMAIN cors THEN cors[n] ELSE up.headers[n]]
  IN  HeadersSet(
        HeadersSet(
          HeadersSet(base, "Content-Type", IF Falsy(ct) THEN "video/mp4" ELSE ct),
          "Content-Length", IF Falsy(cl) THEN "0" ELSE cl),
        "Accept-Ranges", "bytes")

\* The headers of a relayed media response.
relayHeaders(cors, up) ==
  LET ct == HeadersGet(up.headers, "Content-Type")
      cl == HeadersGet(up.headers, "Content-Length")
      h  == HeadersSet(
              HeadersSet(
                HeadersSet(cors, "Content-Type",
                           IF Falsy(ct) THEN "video/mp4" ELSE ct),
                "Content-Length", IF Falsy(cl) THEN "0" ELSE cl),
              "Accept-Ranges", "bytes")
  IN  IF HeadersHas(up.headers, "content-range")
      THEN HeadersSet(h, "Content-Range", HeadersGet(up.headers, "content-range"))
      ELSE h

\* Mutant: the status of the relay is left at the default.
relayStatusDefault(up) == 200

\* status: videoResponse.status
relayStatus(up) == up.status

\* Mutant: the whole upstream body is read before the response is made.
RelayResponseBuffered(s, up, cors) ==
  Respond([s EXCEPT !.stream = "open", !.upRead = MaxChunks,
                    !.upEnded = TRUE, !.upOpen = FALSE],
          Response(up.body, relayStatus(up), relayHeaders(cors, up)))

\* Mutant: the response body is a branch of the upstream body, which is
\* read on whether or not the branch is consumed or cancelled.
RelayResponseDetached(s, up, cors) ==
  Respond([s EXCEPT !.stream = "open", !.detached = TRUE],
          Response(up.body, relayStatus(up), relayHeaders(cors, up)))

\* return new Response(videoResponse.body, { status, headers }): the
\* upstream body itself, unread, becomes the body of the response.
RelayResponse(s, up, cors) ==
  Respond([s EXCEPT !.stream = "open"],
          Response(up.body, relayStatus(up), relayHeaders(cors, up)))

\* The message of the Error thrown for a rejected upstream response.
UpstreamErrorMessage(up) ==
  <<"Upstream server error: ", ToString(up.status), up.statusText>>

(***************************************************************************)
(* src/serve.ts                                                            *)
(***************************************************************************)

\* Mutant: the catch block reports the cause of the failure to the caller.
serveDataCatchLeaks(s, err) ==
  Respond(s, Response(TextBody(<<"Error fetching video info: ">> \o err), 500,
                      s.corsHeaders))

\* The catch block of the metadata request.
serveDataCatch(s, err) ==
  Respond(s, Response(TextBody(<<"Error fetching video info.">>), 500,
                      s.corsHeaders))

\* Mutant: the catch block sends the message of the error to the caller.
serveProxyCatchLeaks(s, err) ==
  Respond(s, Response(TextBody(err), 500, s.corsHeaders))

\* Mutant: the catch block calls the Resolver again before giving up.
serveProxyCatchRetries(s, err) ==
  IF s.resolverCalls < 2
  THEN CallResolver(s, "getVideoUrl")
  ELSE Respond(s, Response(
                    TextBody(<<"An internal server error occurred while proxying video.">>),
                    500, s.corsHeaders))

\* The catch block of the proxy logic.
serveProxyCatch(s, err) ==
  Respond(s, Response(
               TextBody(<<"An internal server error occurred while proxying video.">>),
               500, s.corsHeaders))

\* From the entry of handler to its first await, or to its return.
serveStart(s0) ==
  LET s == [s0 EXCEPT !.corsHeaders = createCorsHeaders("serve")]
  IN  IF IsPreflight(s.method)
      THEN Respond(s, Response(NullBody, 204, s.corsHeaders))
      ELSE IF MissingUrl(s.url)
      THEN LET h == HeadersSet(s.corsHeaders, "Content-Type",
                               "text/plain; charset=utf-8")
           IN  Respond([s EXCEPT !.corsHeaders = h],
                       Response(TextBody(<<"Missing 'url' parameter.">>), 400, h))
      ELSE IF HasData(s.data)
      THEN CallResolver(s, "getVideoInfo")
      ELSE CallResolver(s, "getVideoUrl")

\* After `await getVideoInfo(inputUrl)` settles.
serveAfterVideoInfo(s, out) ==
  IF ~out.ok
  THEN serveDataCatch(s, <<out.cause>>)
  ELSE LET h  == HeadersSet(s.corsHeaders, "Content-Type",
                            "application/json; charset=utf-8")
           s1 == [s EXCEPT !.corsHeaders = h]
       IN  IF ~out.ser
           THEN serveDataCatch(s1, <<"TypeError: value is not serializable">>)
           ELSE Respond(s1, Response(TextBody(JSONStringify(out)), 200, h))

\* Mutant: the empty result of getVideoUrl is not checked.
serveAfterVideoUrlUnchecked(s, out) ==
  IF ~out.ok
  THEN serveProxyCatch(s, <<out.cause>>)
  ELSE CallFetch(s, out.video_url, videoRequestHeaders(s.headers))

\* After `await getVideoUrl(inputUrl)` settles.
serveAfterVideoUrl(s, out) ==
  IF ~out.ok
  THEN serveProxyCatch(s, <<out.cause>>)
  ELSE IF Falsy(out.video_url)
  THEN serveProxyCatch(s, <<"Could not resolve video URL.">>)
  ELSE CallFetch(s, out.video_url, videoRequestHeaders(s.headers))

serveAfterResolver(s0, out) ==
  LET s == [s0 EXCEPT !.resolved = out]
  IN  IF s.resolverFn = "getVideoInfo"
      THEN serveAfterVideoInfo(s, out)
      ELSE serveAfterVideoUrl(s, out)

\* After `await fetch(protectedVideoUrl, ...)` settles.
serveAfterFetch(s0, up) ==
  LET s == [s0 EXCEPT !.upResp = up,
                      !.upOpen = (~up.failed /\ up.body # NullBody)]
  IN  IF up.failed
      THEN serveProxyCatch(s, <<"TypeError: fetch failed">>)
      ELSE IF UpstreamRejected(up)
      THEN serveProxyCatch(s, UpstreamErrorMessage(up))
      ELSE IF ResponseThrows(up.body, relayStatus(up))
      THEN serveProxyCatch(s, <<"TypeError: invalid response status">>)
      ELSE RelayResponse(s, up, createCorsHeaders("serve"))

(***************************************************************************)
(* src/unnamed/part_000                                                    *)
(***************************************************************************)

part000Catch(s, err) ==
  LET h == HeadersSet(s.corsHeaders, "Content-Type", "text/plain; charset=utf-8")
  IN  Respond([s EXCEPT !.corsHeaders = h],
              Response(TextBody(<<"An internal server error occurred.">>), 500, h))

part000Start(s0) ==
  LET s == [s0 EXCEPT !.corsHeaders = createCorsHeaders("part_000")]
  IN  IF IsPreflight(s.method)
      THEN Respond(s, Response(NullBody, 204, s.corsHeaders))
      ELSE IF MissingUrl(s.url)
      THEN LET h == HeadersSet(s.corsHeaders, "Content-Type",
                               "text/plain; charset=utf-8")
           IN  Respond([s EXCEPT !.corsHeaders = h],
                       Response(TextBody(<<"Missing 'url' parameter.">>), 400, h))
      ELSE IF HasData(s.data)
      THEN CallResolver(s, "getVideoInfo")
      ELSE CallResolver(s, "getVideoUrl")

part000AfterResolver(s0, out) ==
  LET s == [s0 EXCEPT !.resolved = out]
  IN  IF ~out.ok
      THEN part000Catch(s, <<out.cause>>)
      ELSE IF s.resolverFn = "getVideoInfo"
      THEN LET h  == HeadersSet(s.corsHeaders, "Content-Type",
                                "application/json; charset=utf-8")
               s1 == [s EXCEPT !.corsHeaders = h]
           IN  IF ~out.ser
               THEN part000Catch(s1, <<"TypeError: value is not serializable">>)
               ELSE Respond(s1, Response(TextBody(JSONStringify(out)), 200, h))
      ELSE LET h == HeadersSet(s.corsHeaders, "Content-Type",
                               "text/plain; charset=utf-8")
           IN  Respond([s EXCEPT !.corsHeaders = h],
                       Response(TextBody(<<out.video_url>>), 200, h))

(***************************************************************************)
(* src/unnamed/part_001                                                    *)
(***************************************************************************)

\* Mutant: the catch block throws the error on.
part001CatchRethrows(s, err) == Fault(s)

\* The message of the source is in Chinese; it reads as below.
part001Catch(s, err) ==
  Respond(s, Response(
               TextBody(<<"The server hit an internal error while processing the request.">>),
               500, s.corsHeaders))

part001Start(s0) ==
  LET s == [s0 EXCEPT !.corsHeaders = createCorsHeaders("part_001")]
  IN  IF IsPreflight(s.method)
      THEN Respond(s, Response(NullBody, 204, s.corsHeaders))
      ELSE IF MissingUrl(s.url)
      THEN Respond(s, Response(TextBody(<<"Missing 'url' parameter.">>), 400,
                               s.corsHeaders))
      ELSE CallResolver(s, "getVideoInfo")

\* The response to a gallery post; the message of the source is in Chinese.
part001GalleryResponse(s) ==
  Respond(s, Response(
               TextBody(<<"This is an image post. Use the endpoint with '&data=true' to get the image links.">>),
               400, s.corsHeaders))

\* Mutant: the video URL of the record is not checked.
part001IsVideoByTypeOnly(data) == data.type = "video"

\* data.type === 'video' && data.video_url
part001IsVideo(data) == data.type = "video" /\ ~Falsy(data.video_url)

part001AfterResolver(s0, out) ==
  LET s == [s0 EXCEPT !.resolved = out]
  IN  IF ~out.ok
      THEN part001Catch(s, <<out.cause>>)
      ELSE IF HasData(s.data)
      THEN LET h  == HeadersSet(s.corsHeaders, "Content-Type",
                                "application/json; charset=utf-8")
               s1 == [s EXCEPT !.corsHeaders = h]
           IN  IF ~out.ser
               THEN part001Catch(s1, <<"TypeError: value is not serializable">>)
               ELSE Respond(s1, Response(TextBody(JSONStringify(out)), 200, h))
      ELSE IF part001IsVideo(out)
      THEN CallFetch(s, out.video_url, videoRequestHeaders(s.headers))
      ELSE IF out.type = "img"
      THEN part001GalleryResponse(s)
      ELSE part001Catch(s, <<"unknown or unsupported content type">>)

part001AfterFetch(s0, up) ==
  LET s == [s0 EXCEPT !.upResp = up,
                      !.upOpen = (~up.failed /\ up.body # NullBody)]
  IN  IF up.failed
      THEN part001Catch(s, <<"TypeError: fetch failed">>)
      ELSE IF UpstreamRejected(up)
      THEN part001Catch(s, UpstreamErrorMessage(up))
      ELSE IF ResponseThrows(up.body, relayStatus(up))
      THEN part001Catch(s, <<"TypeError: invalid response status">>)
      ELSE RelayResponse(s, up, createCorsHeaders("part_001"))

(***************************************************************************)
(* Actions                                                                 *)
(***************************************************************************)

Start(s) ==
  CASE s.variant = "serve"    -> serveStart(s)
    [] s.variant = "part_000" -> part000Start(s)
    [] s.variant = "part_001" -> part001Start(s)

AfterResolver(s, out) ==
  CASE s.variant = "serve"    -> serveAfterResolver(s, out)
    [] s.variant = "part_000" -> part000AfterResolver(s, out)
    [] s.variant = "part_001" -> part001AfterResolver(s, out)

AfterFetch(s, up) ==
  CASE s.variant = "serve"    -> serveAfterFetch(s, up)
    [] s.variant = "part_001" -> part001AfterFetch(s, up)

Init ==
  /\ req = [r \in Reqs |-> IdleRequest]
  /\ heap = [o \in Reqs |-> NoHeaders]

\* The state of the run for request r as the run sees it: its `corsHeaders`
\* is the current content of its Headers object.
Load(r) == [req[r] EXCEPT !.corsHeaders = heap[CorsObjectOf(r)]]

\* The run for request r reaches state s; what it did to `corsHeaders` is
\* done to its Headers object.
Store(r, s) ==
  /\ req' = [req EXCEPT ![r] = s]
  /\ heap' = [heap EXCEPT ![CorsObjectOf(r)] = s.corsHeaders]

\* The requests that may arrive: method, url, data, Range, Cookie, for each
\* of the handlers.
RequestInputs ==
  Variants \X Methods \X UrlParams \X DataParams \X CallerRanges \X CallerCookies

ReceiveFrom(r, inputs) ==
  /\ req[r].pc = "idle"
  /\ \E x \in inputs :
       Store(r, Start(NewRequest(x[1], x[2], x[3], x[4], x[5], x[6])))

ResolverReturnsFrom(r, outcomes) ==
  /\ req[r].pc = "awaitResolver"
  /\ \E out \in outcomes : Store(r, AfterResolver(Load(r), out))

FetchReturnsFrom(r, responses) ==
  /\ req[r].pc = "awaitFetch"
  /\ \E up \in responses : Store(r, AfterFetch(Load(r), up))

\* A request arrives and its handler runs to its first await or return.
Receive(r) == ReceiveFrom(r, RequestInputs)

\* The Resolver call settles and the handler runs on.
ResolverReturns(r) == ResolverReturnsFrom(r, ResolverOutcomes)

\* The upstream fetch settles and the handler runs on.
FetchReturns(r) == FetchReturnsFrom(r, UpstreamResponses)

\* The body stream of the response pulls a chunk from the upstream: it
\* pulls only while it is open and holds fewer than HighWaterMark chunks.
UpstreamChunk(r) ==
  /\ req[r].upOpen
  /\ ~req[r].upEnded
  /\ req[r].upRead < MaxChunks
  /\ \/ req[r].detached
     \/ /\ req[r].stream = "open"
        /\ req[r].upRead - req[r].delivered < HighWaterMark
  /\ req' = [req EXCEPT ![r].upRead = @ + 1]
  /\ UNCHANGED heap

\* A pull finds the upstream body at its end; the connection is released.
UpstreamEnd(r) ==
  /\ req[r].upOpen
  /\ ~req[r].upEnded
  /\ \/ req[r].detached
     \/ /\ req[r].stream = "open"
        /\ req[r].upRead - req[r].delivered < HighWaterMark
  /\ req' = [req EXCEPT ![r].upEnded = TRUE, ![r].upOpen = FALSE]
  /\ UNCHANGED heap

\* The caller takes a chunk of the response body.
Deliver(r) ==
  /\ req[r].stream = "open"
  /\ req[r].delivered < req[r].upRead
  /\ req' = [req EXCEPT ![r].delivered = @ + 1]
  /\ UNCHANGED heap

\* The caller has taken the whole body.
StreamComplete(r) ==
  /\ req[r].stream = "open"
  /\ req[r].upEnded
  /\ req[r].delivered = req[r].upRead
  /\ req' = [req EXCEPT ![r].stream = "completed"]
  /\ UNCHANGED heap

\* The caller's connection closes while the body is streamed: the server
\* cancels the body of the response, and with it the source it pulls from.
CallerDisconnect(r) ==
  /\ req[r].stream = "open"
  /\ req' = [req EXCEPT ![r].stream = "cancelled",
                        ![r].callerGone = TRUE,
                        ![r].readAtCancel = req[r].upRead,
                        ![r].upOpen = IF req[r].detached THEN @ ELSE FALSE]
  /\ UNCHANGED heap

Next ==
  \E r \in MainReqs :
    \/ Receive(r)
    \/ ResolverReturns(r)
    \/ FetchReturns(r)
    \/ UpstreamChunk(r)
    \/ UpstreamEnd(r)
    \/ Deliver(r)
    \/ StreamComplete(r)
    \/ CallerDisconnect(r)

Spec == Init /\ [][Next]_vars

\* The handler resumes when the call it awaits has settled.
FairSpec ==
  /\ Spec
  /\ \A r \in MainReqs :
       /\ WF_vars(ResolverReturns(r))
       /\ WF_vars(FetchReturns(r))

(***************************************************************************)
(* Two requests at once, with fewer inputs                                 *)
(***************************************************************************)

ConcInputs ==
  Variants \X {"GET", "OPTIONS"} \X {JsNull, ShareUrl} \X {JsNull, "1"}
    \X {JsNull} \X {JsNull}

ConcOutcomes ==
  { out \in ResolverOutcomes :
      \/ ~out.ok /\ out.cause = "post gone"
      \/ out.ok /\ out.type = "video" /\ out.video_url = MediaUrl
      \/ out.ok /\ out.type = "img" /\ out.video_url = "" /\ out.ser }

ConcResponses ==
  { up \in UpstreamResponses :
      \/ up.failed
      \/ /\ ~up.failed
         /\ up.status \in {200, 404}
         /\ up.body # NullBody
         /\ up.headers = UpstreamHeaders("video/webm", JsNull, JsNull, JsNull) }

ConcReceive(r) == ReceiveFrom(r, ConcInputs)

ConcResolverReturns(r) == ResolverReturnsFrom(r, ConcOutcomes)

ConcFetchReturns(r) == FetchReturnsFrom(r, ConcResponses)

\* The runs of the two requests interleave at their awaits.
ConcNext ==
  \E r \in Reqs :
    \/ ConcReceive(r)
    \/ ConcResolverReturns(r)
    \/ ConcFetchReturns(r)

ConcSpec == Init /\ [][ConcNext]_vars

(***************************************************************************)
(* Properties                                                              *)
(***************************************************************************)

Done(r) == req[r].pc = "done"

Received(r) == req[r].pc # "idle"

CallerRange(r) == HeadersGet(req[r].headers, "Range")

ContentTypeOf(resp) == HeadersGet(resp.headers, "Content-Type")

FullCorsHeaders(h) ==
  /\ HeadersGet(h, "Access-Control-Allow-Origin") = "*"
  /\ HeadersGet(h, "Access-Control-Allow-Methods") = "GET, OPTIONS"
  /\ HeadersGet(h, "Access-Control-Allow-Headers") = "Content-Type, Range"
  /\ HeadersGet(h, "Access-Control-Expose-Headers") = "Content-Length, Content-Range"

\* The upstream fetch of request r settled with a response.
UpstreamAnswered(r) ==
  /\ Done(r)
  /\ req[r].fetchCalls > 0
  /\ ~req[r].upResp.failed

\* C1: every response, on every path, carries the full CORS header set
\* (Allow-Origin *, Allow-Methods GET, OPTIONS, Allow-Headers Content-Type,
\* Range, Expose-Headers Content-Length, Content-Range).
C1_EveryResponseHasFullCors ==
  \A r \in Reqs : Done(r) => FullCorsHeaders(req[r].resp.headers)

\* C2: a request that is not OPTIONS and has no `url` parameter is answered
\* 400 with a plain-text body, with no Resolver call and no upstream fetch.
C2_MissingUrlRejectedBeforeResolver ==
  \A r \in Reqs :
    (Received(r) /\ req[r].method # "OPTIONS" /\ req[r].url = JsNull) =>
      /\ Done(r)
      /\ req[r].resp.status = 400
      /\ IsText(req[r].resp.body)
      /\ ContentTypeOf(req[r].resp) \in
           {"text/plain; charset=utf-8", "text/plain;charset=UTF-8"}
      /\ req[r].resolverCalls = 0
      /\ req[r].fetchCalls = 0
      /\ req[r].log = <<"respond">>

C2_Witness ==
  \E r \in Reqs :
    /\ Done(r)
    /\ req[r].method = "GET"
    /\ req[r].url = JsNull
    /\ req[r].data # JsNull
    /\ req[r].resp.status = 400

\* C3: on the media-relay path (url given, no `data`), a post that resolves
\* to an image gallery is answered 400 and no upstream fetch is attempted.
C3_GalleryRejectedWithoutFetch ==
  \A r \in Reqs :
    ( /\ req[r].method # "OPTIONS"
      /\ ~Falsy(req[r].url)
      /\ req[r].data = JsNull
      /\ req[r].resolved.ok
      /\ req[r].resolved.type = "img" ) =>
      /\ req[r].fetchCalls = 0
      /\ Done(r) => req[r].resp.status = 400

\* C4: the Range header of the upstream media fetch is the caller's Range
\* header, unmodified, and is absent when the caller sent none.
C4_RangeForwardedVerbatim ==
  \A r \in Reqs :
    req[r].fetchCalls > 0 =>
      IF CallerRange(r) = JsNull
      THEN ~HeadersHas(req[r].upReq.headers, "Range")
      ELSE /\ HeadersHas(req[r].upReq.headers, "Range")
           /\ HeadersGet(req[r].upReq.headers, "Range") = CallerRange(r)

C4_Witness ==
  \E r \in Reqs :
    /\ req[r].fetchCalls > 0
    /\ CallerRange(r) = "bytes=100-199"
    /\ HeadersGet(req[r].upReq.headers, "Range") = "bytes=100-199"

\* C5: a relayed media response has the upstream's status code exactly,
\* and the upstream's Content-Range exactly when the upstream gave one.
C5_RelayKeepsStatusAndContentRange ==
  \A r \in Reqs :
    (Done(r) /\ IsStream(req[r].resp.body)) =>
      /\ req[r].resp.status = req[r].upResp.status
      /\ req[r].resp.body = req[r].upResp.body
      /\ HeadersHas(req[r].upResp.headers, "Content-Range") =>
           HeadersGet(req[r].resp.headers, "Content-Range")
             = HeadersGet(req[r].upResp.headers, "Content-Range")

C5_Witness ==
  \E r \in Reqs :
    /\ Done(r)
    /\ IsStream(req[r].resp.body)
    /\ req[r].upResp.status = 206
    /\ req[r].resp.status = 206
    /\ HeadersGet(req[r].resp.headers, "Content-Range") = "bytes 100-199/5000"

\* The fixed messages of the catch blocks that end a failed media relay.
GenericProxyMessages ==
  { TextBody(<<"An internal server error occurred while proxying video.">>),
    TextBody(<<"The server hit an internal error while processing the request.">>) }

\* The upstream of request r answered with a status outside 200..299, or
\* with no body.
UpstreamUnsuccessful(r) ==
  /\ UpstreamAnswered(r)
  /\ \/ req[r].upResp.status < 200
     \/ req[r].upResp.status > 299
     \/ req[r].upResp.body = NullBody

\* Nothing of the upstream response is in the body sent to the caller.
NoUpstreamLeak(r) ==
  /\ ~IsStream(req[r].resp.body)
  /\ \A i \in 1..Len(req[r].resp.body) :
       /\ req[r].resp.body[i] # req[r].upResp.statusText
       /\ req[r].resp.body[i] # ToString(req[r].upResp.status)

\* C6, as stated: after an unsuccessful or bodiless upstream response the
\* handler answers 500 with a fixed message, the outbound status is never
\* the upstream's status, and nothing of the upstream response reaches the
\* caller.
C6_FailureStatusNeverUpstreams ==
  \A r \in Reqs :
    UpstreamUnsuccessful(r) =>
      /\ req[r].resp.status = 500
      /\ req[r].resp.body \in GenericProxyMessages
      /\ req[r].resp.status # req[r].upResp.status
      /\ NoUpstreamLeak(r)

\* C6, amended: after an unsuccessful (outside 200..299) or bodiless
\* upstream response the handler answers 500 with a fixed message whatever
\* the upstream status was, so the outbound status differs from the
\* upstream's unless the upstream itself answered 500, and nothing of the
\* upstream response reaches the caller.
C6_FailureIsGeneric500 ==
  \A r \in Reqs :
    UpstreamUnsuccessful(r) =>
      /\ req[r].resp.status = 500
      /\ req[r].resp.body \in GenericProxyMessages
      /\ req[r].upResp.status # 500 => req[r].resp.status # req[r].upResp.status
      /\ NoUpstreamLeak(r)

C6_Witness ==
  \E r \in Reqs :
    /\ UpstreamUnsuccessful(r)
    /\ req[r].upResp.status = 404
    /\ req[r].upResp.body # NullBody
    /\ req[r].resp.status = 500

\* C7, as stated: only upstream statuses 200 and 206 count as success; any
\* other upstream status ends in a 500, so a relayed media body always has
\* status 200 or 206.
C7_Only200And206Relayed ==
  \A r \in Reqs :
    UpstreamAnswered(r) =>
      /\ req[r].upResp.status \notin {200, 206} =>
           (req[r].resp.status = 500 /\ ~IsStream(req[r].resp.body))
      /\ IsStream(req[r].resp.body) => req[r].resp.status \in {200, 206}

\* C7, amended: every upstream status in 200..299 that comes with a body
\* counts as success and is relayed with that status; every upstream status
\* outside 200..299 ends in a 500, so a relayed media body always has a
\* status in 200..299.
C7_Only2xxRelayed ==
  \A r \in Reqs :
    UpstreamAnswered(r) =>
      /\ (req[r].upResp.status < 200 \/ req[r].upResp.status > 299) =>
           (req[r].resp.status = 500 /\ ~IsStream(req[r].resp.body))
      /\ IsStream(req[r].resp.body) =>
           (req[r].resp.status >= 200 /\ req[r].resp.status <= 299)
      /\ ( /\ req[r].upResp.status >= 200
           /\ req[r].upResp.status <= 299
           /\ req[r].upResp.body # NullBody ) =>
           (IsStream(req[r].resp.body) /\ req[r].resp.status = req[r].upResp.status)

C7_Witness ==
  \E r \in Reqs :
    /\ UpstreamAnswered(r)
    /\ req[r].upResp.status = 203
    /\ IsStream(req[r].resp.body)
    /\ req[r].resp.status = 203

\* C8: with `url` given and `data` present, whatever the value of `data`,
\* a record returned by the Resolver is answered 200 application/json with
\* the JSON serialization of the record as body, whatever the type of the
\* post, and no upstream fetch is made.
C8_DataPresenceServesJson ==
  \A r \in Reqs :
    ( /\ req[r].method # "OPTIONS"
      /\ ~Falsy(req[r].url)
      /\ req[r].data # JsNull ) =>
      /\ req[r].fetchCalls = 0
      /\ (Done(r) /\ req[r].resolved.ok /\ req[r].resolved.ser) =>
           /\ req[r].resp.status = 200
           /\ ContentTypeOf(req[r].resp) = "application/json; charset=utf-8"
           /\ req[r].resp.body =
                <<"text", "{\"type\":", req[r].resolved.type,
                  ",\"video_url\":", req[r].resolved.video_url, "}">>

C8_Witness ==
  \E r \in Reqs :
    /\ Done(r)
    /\ req[r].method = "GET"
    /\ ~Falsy(req[r].url)
    /\ req[r].data = ""
    /\ req[r].resolved.ok
    /\ req[r].resolved.type = "img"
    /\ req[r].resp.status = 200
    /\ ContentTypeOf(req[r].resp) = "application/json; charset=utf-8"

\* C9: every OPTIONS request, whatever its query string and headers, is
\* answered 204 with no body and the CORS headers, among them
\* Access-Control-Allow-Methods: GET, OPTIONS, with no Resolver call and no
\* upstream fetch.
C9_PreflightAnsweredAtOnce ==
  \A r \in Reqs :
    (Received(r) /\ req[r].method = "OPTIONS") =>
      /\ Done(r)
      /\ req[r].resp.status = 204
      /\ req[r].resp.body = NullBody
      /\ ~HeadersHas(req[r].resp.headers, "Content-Type")
      /\ HeadersGet(req[r].resp.headers, "Access-Control-Allow-Methods") = "GET, OPTIONS"
      /\ HeadersGet(req[r].resp.headers, "Access-Control-Allow-Origin") = "*"
      /\ HeadersHas(req[r].resp.headers, "Access-Control-Allow-Headers")
      /\ req[r].resolverCalls = 0
      /\ req[r].fetchCalls = 0
      /\ req[r].log = <<"respond">>

C9_Witness ==
  \E r \in Reqs :
    /\ Done(r)
    /\ req[r].method = "OPTIONS"
    /\ req[r].url = JsNull
    /\ req[r].data # JsNull
    /\ CallerRange(r) # JsNull
    /\ req[r].resp.status = 204

\* The number of Resolver calls in the log of request r.
ResolverCallsLogged(r) ==
  Cardinality({i \in 1..Len(req[r].log) : req[r].log[i] = "resolve"})

\* C10: the Resolver is invoked at most once for a request, on every path
\* and outcome: no duplicate call, no retry after a failure.
C10_ResolverCalledAtMostOnce ==
  \A r \in Reqs :
    /\ req[r].resolverCalls <= 1
    /\ ResolverCallsLogged(r) = req[r].resolverCalls
    /\ req[r].pc = "awaitResolver" => req[r].resolverCalls = 1

\* A request that ended after its upstream fetch failed, with one call.
C10_Witness ==
  \E r \in Reqs :
    /\ Done(r)
    /\ req[r].resp.status = 500
    /\ req[r].fetchCalls = 1
    /\ req[r].resolverCalls = 1


\* The Resolver call of request r settled with a failure.
ResolverFailed(r) ==
  /\ req[r].resolverCalls > 0
  /\ req[r].pc # "awaitResolver"
  /\ ~req[r].resolved.ok

\* The fixed message each handler sends after a Resolver failure.
ResolverFailureMessage(variant, fn) ==
  CASE variant = "serve" /\ fn = "getVideoInfo" ->
         TextBody(<<"Error fetching video info.">>)
    [] variant = "serve" /\ fn = "getVideoUrl" ->
         TextBody(<<"An internal server error occurred while proxying video.">>)
    [] variant = "part_000" ->
         TextBody(<<"An internal server error occurred.">>)
    [] variant = "part_001" ->
         TextBody(<<"The server hit an internal error while processing the request.">>)

\* C11: every Resolver failure, whatever its cause, on the metadata path and
\* on the media path, is answered 500 with a fixed message that does not
\* depend on the cause and holds no metadata, and no upstream fetch is made.
C11_ResolverFailureIsGeneric500 ==
  \A r \in Reqs :
    ResolverFailed(r) =>
      /\ Done(r)
      /\ req[r].resp.status = 500
      /\ req[r].resp.body = ResolverFailureMessage(req[r].variant, req[r].resolverFn)
      /\ ContentTypeOf(req[r].resp) \in
           {"text/plain; charset=utf-8", "text/plain;charset=UTF-8"}
      /\ \A i \in 1..Len(req[r].resp.body) :
           req[r].resp.body[i] # req[r].resolved.cause
      /\ req[r].fetchCalls = 0

C11_Witness ==
  \E r \in Reqs :
    /\ ResolverFailed(r)
    /\ req[r].resolved.cause = "post gone"
    /\ req[r].data = JsNull
    /\ req[r].resp.status = 500

\* C13: the upstream fetch is issued only after the Resolver call returned a
\* record with a non-empty video URL, to that URL, at most once, never while
\* the Resolver call is pending, never after a Resolver failure, never on
\* the metadata path, and never again after an upstream failure.
C13_FetchOnlyAfterResolvedOnce ==
  \A r \in Reqs :
    /\ req[r].fetchCalls <= 1
    /\ Cardinality({i \in 1..Len(req[r].log) : req[r].log[i] = "fetch"})
         = req[r].fetchCalls
    /\ req[r].pc = "awaitResolver" => req[r].fetchCalls = 0
    /\ req[r].pc = "awaitFetch" => req[r].fetchCalls = 1
    /\ req[r].fetchCalls > 0 =>
         /\ req[r].resolved.ok
         /\ ~Falsy(req[r].resolved.video_url)
         /\ req[r].upReq.url = req[r].resolved.video_url
         /\ req[r].data = JsNull
         /\ Len(req[r].log) >= 2
         /\ req[r].log[1] = "resolve"
         /\ req[r].log[2] = "fetch"

\* A request answered 500 after its one upstream fetch failed.
C13_Witness ==
  \E r \in Reqs :
    /\ Done(r)
    /\ req[r].fetchCalls = 1
    /\ req[r].upResp.status = 404
    /\ req[r].resp.status = 500
    /\ req[r].log = <<"resolve", "fetch", "respond">>

\* What the media-relay path of request r knows of the post is not a video
\* with a URL and not a gallery: part_001 sees the record, serve.ts sees
\* only the URL that getVideoUrl returned.
UnknownContent(r) ==
  /\ req[r].method # "OPTIONS"
  /\ ~Falsy(req[r].url)
  /\ req[r].data = JsNull
  /\ req[r].resolverCalls > 0
  /\ req[r].pc # "awaitResolver"
  /\ req[r].resolved.ok
  /\ \/ /\ req[r].variant = "part_001"
        /\ \/ req[r].resolved.type = "other"
           \/ req[r].resolved.type = "video" /\ Falsy(req[r].resolved.video_url)
     \/ /\ req[r].variant = "serve"
        /\ Falsy(req[r].resolved.video_url)

IdentityOverride ==
  [n \in {"referer", "user-agent"} |->
     IF n = "referer"
     THEN "https://www.douyin.com/"
     ELSE "Mozilla/5.0 (Windows NT 10.0; Win64; x64) AppleWebKit/537.36 (KHTML, like Gecko) Chrome/107.0.0.0 Safari/537.36"]

\* C16: the headers of the upstream media request are exactly the fixed
\* Referer and User-Agent, plus Range if and only if the caller sent one;
\* no other header of the caller is forwarded, so the upstream request is
\* the same whatever the caller's other headers are.
C16_UpstreamHeadersAreIdentityPlusRange ==
  \A r \in Reqs :
    req[r].fetchCalls > 0 =>
      /\ DOMAIN req[r].upReq.headers =
           {"referer", "user-agent"} \cup
             (IF CallerRange(r) = JsNull THEN {} ELSE {"range"})
      /\ \A n \in {"referer", "user-agent"} :
           req[r].upReq.headers[n] = IdentityOverride[n]
      /\ CallerRange(r) # JsNull => req[r].upReq.headers["range"] = CallerRange(r)

C16_Witness ==
  \E r \in Reqs :
    /\ req[r].fetchCalls > 0
    /\ HeadersGet(req[r].headers, "Cookie") = "sid=1"
    /\ CallerRange(r) = JsNull
    /\ req[r].upReq.headers = IdentityOverride


\* Request r was answered with a relayed media body.
Relayed(r) == Done(r) /\ IsStream(req[r].resp.body)

\* The names of the CORS headers of a relaying handler.
CorsNames ==
  { "access-control-allow-origin", "access-control-allow-methods",
    "access-control-allow-headers", "access-control-expose-headers" }

\* C15, as stated: a relay response has the upstream's Content-Type, or
\* video/mp4 if the upstream has none; the upstream's Content-Length, or 0
\* if the upstream has none; Accept-Ranges: bytes; Content-Range if and only
\* if the upstream has one; and no other header of the upstream.
C15_RelayHeadersDefaultWhenAbsent ==
  \A r \in Reqs :
    Relayed(r) =>
      LET up  == req[r].upResp.headers
          out == req[r].resp.headers
      IN  /\ out["content-type"] =
               (IF "content-type" \in DOMAIN up THEN up["content-type"] ELSE "video/mp4")
          /\ out["content-length"] =
               (IF "content-length" \in DOMAIN up THEN up["content-length"] ELSE "0")
          /\ out["accept-ranges"] = "bytes"
          /\ ("content-range" \in DOMAIN out) <=> ("content-range" \in DOMAIN up)
          /\ "content-range" \in DOMAIN up => out["content-range"] = up["content-range"]
          /\ DOMAIN out =
               CorsNames \cup {"content-type", "content-length", "accept-ranges"}
                 \cup ({"content-range"} \cap DOMAIN up)

\* C15, amended: as stated, but video/mp4 and 0 are also used when the
\* upstream's Content-Type or Content-Length is present with an empty value.
C15_RelayHeadersDefaultWhenAbsentOrEmpty ==
  \A r \in Reqs :
    Relayed(r) =>
      LET up  == req[r].upResp.headers
          out == req[r].resp.headers
      IN  /\ out["content-type"] =
               (IF "content-type" \in DOMAIN up /\ up["content-type"] # ""
                THEN up["content-type"] ELSE "video/mp4")
          /\ out["content-length"] =
               (IF "content-length" \in DOMAIN up /\ up["content-length"] # ""
                THEN up["content-length"] ELSE "0")
          /\ out["accept-ranges"] = "bytes"
          /\ ("content-range" \in DOMAIN out) <=> ("content-range" \in DOMAIN up)
          /\ "content-range" \in DOMAIN up => out["content-range"] = up["content-range"]
          /\ DOMAIN out =
               CorsNames \cup {"content-type", "content-length", "accept-ranges"}
                 \cup ({"content-range"} \cap DOMAIN up)

\* A relay of an upstream response that has an empty Content-Type, no
\* Content-Length and a header the handler does not read.
C15_Witness ==
  \E r \in Reqs :
    /\ Relayed(r)
    /\ HeadersGet(req[r].upResp.headers, "Content-Type") = ""
    /\ ~HeadersHas(req[r].upResp.headers, "Content-Length")
    /\ HeadersHas(req[r].upResp.headers, "ETag")
    /\ req[r].resp.headers["content-type"] = "video/mp4"
    /\ req[r].resp.headers["content-length"] = "0"

\* C20: no error response is labelled JSON: a response whose Content-Type
\* is application/json has status 200 and the JSON serialization of the
\* record as body, also when serialization throws after the Content-Type
\* was set.
C20_JsonLabelOnlyOnMetadata ==
  \A r \in Reqs :
    (Done(r) /\ ContentTypeOf(req[r].resp) = "application/json; charset=utf-8") =>
      /\ req[r].resp.status = 200
      /\ req[r].resolved.ok
      /\ req[r].resp.body =
           <<"text", "{\"type\":", req[r].resolved.type,
             ",\"video_url\":", req[r].resolved.video_url, "}">>


IsolatedRun(r) ==
  LET s0 == Start([ IdleRequest EXCEPT !.variant = req[r].variant,
                                       !.method = req[r].method,
                                       !.url = req[r].url,
                                       !.data = req[r].data,
                                       !.headers = req[r].headers ])
      s1 == IF req[r].resolverCalls > 0 /\ req[r].pc # "awaitResolver"
            THEN AfterResolver(s0, req[r].resolved) ELSE s0
  IN  IF req[r].fetchCalls > 0 /\ req[r].pc # "awaitFetch"
      THEN AfterFetch(s1, req[r].upResp) ELSE s1

\* C17: concurrent requests share no mutable state: each run has its own
\* Headers object, and under every interleaving of two requests at their
\* awaits the response and the upstream request of each are those of its
\* run on its own, so no header set for one request shows in the response
\* of the other.
C17_RequestsDoNotInterfere ==
  /\ \A r1, r2 \in Reqs : r1 # r2 => CorsObjectOf(r1) # CorsObjectOf(r2)
  /\ \A r \in Reqs :
       Received(r) =>
         /\ req[r].pc = IsolatedRun(r).pc
         /\ req[r].resp = IsolatedRun(r).resp
         /\ req[r].upReq = IsolatedRun(r).upReq
         /\ heap[CorsObjectOf(r)] = IsolatedRun(r).corsHeaders

\* One request was answered with JSON while the other, which awaited its
\* Resolver, was then answered with an error from its catch block.
C17_Witness ==
  \E r1, r2 \in Reqs :
    /\ r1 # r2
    /\ Done(r1)
    /\ Done(r2)
    /\ ContentTypeOf(req[r1].resp) = "application/json; charset=utf-8"
    /\ req[r2].variant = "serve"
    /\ req[r2].data = JsNull
    /\ req[r2].resolverCalls = 1
    /\ req[r2].resp.status = 500
    /\ ContentTypeOf(req[r2].resp) = "text/plain;charset=UTF-8"

====
